---- MODULE Spec2Model ----
(***************************************************************************)
(* split_aud: src/main.rs.  split_audio reads an avisynth/vapoursynth      *)
(* script, extracts the trim frame numbers (Trim(...) calls, else python   *)
(* slices clip[a:b]), converts them to timecodes, has mkvmerge split the   *)
(* audio at those timecodes, selects every other segment and has mkvmerge  *)
(* append the selected segments.                                           *)
(*                                                                         *)
(* The script text is modelled as a sequence of fragments.  A fragment is  *)
(* a piece of text of the shape  trim(<s>, <e>)  or  clip[<s>:<e>]  with   *)
(* its two numerals kept as digit sequences and the sign of the second     *)
(* one, or a piece of text that neither regex can match.  The two regexes  *)
(* are modelled by what they accept on such a fragment.                    *)
(*                                                                         *)
(* f32 arithmetic is modelled by exact rational arithmetic on a framerate  *)
(* num/den; the model's frames and framerates are chosen away from the     *)
(* values where f32 rounding changes a millisecond.                        *)
(***************************************************************************)
EXTENDS Integers, Sequences, FiniteSets, TLC

VARIABLES
    pc,                  \* position in split_audio
    input_avs,           \* content of the script file opts.input_avs
    framerate,           \* opts.framerate, as [num, den]
    avs_contents,        \* the String the script is read into
    cut_times,           \* Vec<String> of timecodes
    k,                   \* index of the next regex match of the running loop
    cached_total_frames, \* Option<isize>
    merge_files,         \* Vec<PathBuf>, as the segment identifiers i + 1
    use_first,
    i,                   \* index of the selection loop
    procs,               \* external processes started so far, in order
    splitArg,            \* the --split argument given to the splitter
    mergeArgs,           \* the input arguments given to the merger
    panicCause,          \* which unwrap/expect/panic! ended the run
    probeCalls,          \* history: calls of get_total_frames
    frames,              \* history: every `frame` value computed, in order
    src,                 \* history: the loop that computed each frame
    resolved             \* history: the total each negative END was added to

vars == <<pc, input_avs, framerate, avs_contents, cut_times, k,
          cached_total_frames, merge_files, use_first, i, procs, splitArg,
          mergeArgs, panicCause, probeCalls, frames, src, resolved>>

-----------------------------------------------------------------------------
(* Bounds of the model *)

\* longest script, in fragments
MaxFrags == 2

\* longest cut list given to the selection loop on its own
MaxCuts == 3

-----------------------------------------------------------------------------
(* Option<T> *)

None == [some |-> FALSE, v |-> 0]

Some(x) == [some |-> TRUE, v |-> x]

-----------------------------------------------------------------------------
(* Numerals and str::parse *)

Digit == <<"0", "1", "2", "3", "4", "5", "6", "7", "8", "9">>

\* usize::MAX = 18446744073709551615
UsizeMaxDigits == <<1,8,4,4,6,7,4,4,0,7,3,7,0,9,5,5,1,6,1,5>>

\* isize::MAX = 9223372036854775807
IsizeMaxDigits == <<9,2,2,3,3,7,2,0,3,6,8,5,4,7,7,5,8,0,7>>

\* -isize::MIN = 9223372036854775808
IsizeMinDigits == <<9,2,2,3,3,7,2,0,3,6,8,5,4,7,7,5,8,0,8>>

RECURSIVE StripZeros(_)
StripZeros(d) ==
    IF Len(d) > 1 /\ d[1] = 0 THEN StripZeros(Tail(d)) ELSE d

RECURSIVE LexGreater(_, _)
LexGreater(a, b) ==
    IF a = <<>> THEN FALSE
    ELSE IF a[1] # b[1] THEN a[1] > b[1]
    ELSE LexGreater(Tail(a), Tail(b))

\* the numeral d denotes a number greater than the one limit denotes
Exceeds(d, limit) ==
    LET s == StripZeros(d)
    IN  \/ Len(s) > Len(limit)
        \/ Len(s) = Len(limit) /\ LexGreater(s, limit)

RECURSIVE DigitsValue(_, _)
DigitsValue(d, acc) ==
    IF d = <<>> THEN acc ELSE DigitsValue(Tail(d), acc * 10 + d[1])

\* str::parse::<usize>() of a match of \d+
ParseUsize(d) ==
    IF Exceeds(d, UsizeMaxDigits) THEN None ELSE Some(DigitsValue(d, 0))

\* str::parse::<isize>() of a match of -?\d+
ParseIsize(neg, d) ==
    IF neg
    THEN IF Exceeds(d, IsizeMinDigits) THEN None ELSE Some(0 - DigitsValue(d, 0))
    ELSE IF Exceeds(d, IsizeMaxDigits) THEN None ELSE Some(DigitsValue(d, 0))

-----------------------------------------------------------------------------
(* Frame -> timecode *)

Pad2(n) == Digit[((n \div 10) % 10) + 1] \o Digit[(n % 10) + 1]

Pad3(n) == Digit[((n \div 100) % 10) + 1] \o Pad2(n)

\* seconds.trunc() as u32, for seconds = frame as f32 / framerate
TruncSeconds(frame, fr) == (frame * fr.den) \div fr.num

\* the milliseconds "%.3f" prints for nano = seconds.fract() * 1e9
FractMillis(frame, fr) == (((frame * fr.den) % fr.num) * 1000) \div fr.num

\* NaiveTime::from_num_seconds_from_midnight_opt(secs, nano)
\*     .map(|t| t.format("%H:%M:%S%.3f").to_string())
\* None from 24h on; the unwrap() of the caller then panics.
ToTimecode(frame, fr) ==
    LET secs == TruncSeconds(frame, fr)
    IN  IF secs >= 86400 THEN None
        ELSE Some(Pad2(secs \div 3600) \o ":" \o Pad2((secs \div 60) % 60)
                  \o ":" \o Pad2(secs % 60) \o "." \o Pad3(FractMillis(frame, fr)))

ZeroTimecode == "00:00:00.000"

-----------------------------------------------------------------------------
(* The script text and the two regexes *)

\* a numeral of 20 digits: greater than usize::MAX and than isize::MAX
Huge == <<9,9,9,9,9,9,9,9,9,9,9,9,9,9,9,9,9,9,9,9>>

StartNumerals == {<<0>>, <<2,0,0>>}

EndNumerals == {<<0>>, <<9,9>>, <<2,9,9>>, Huge}

\* the END numerals of the slices, with their sign
SliceEnds ==
    {[neg |-> FALSE, d |-> <<0>>], [neg |-> FALSE, d |-> <<9,9>>],
     [neg |-> TRUE, d |-> <<9,9>>], [neg |-> TRUE, d |-> <<2,9,9>>],
     [neg |-> FALSE, d |-> Huge]}

\* text that neither regex matches
TextFragment == [kind |-> "text", s |-> <<0>>, neg |-> FALSE, e |-> <<0>>]

\* "trim(0, -99)": a trim call with a signed number
SignedTrim == [kind |-> "trim", s |-> <<0>>, neg |-> TRUE, e |-> <<9,9>>]

\* "trim(<s>, <e>)" / "clip[<s>:<e>]", <e> written with a minus sign when neg
Fragments ==
    [kind : {"trim"}, s : StartNumerals, neg : {FALSE}, e : EndNumerals]
        \cup {[kind |-> "slice", s |-> s, neg |-> e.neg, e |-> e.d] :
                 s \in StartNumerals, e \in SliceEnds}
        \cup {TextFragment, SignedTrim}

Scripts == UNION {[1..n -> Fragments] : n \in 0..MaxFrags}

Framerates ==
    {[num |-> 24, den |-> 1], [num |-> 30000, den |-> 1001], [num |-> 1, den |-> 1000]}

\* [tT]rim\((?:\w+, ?)?(\d+), ?(\d+)\) : both numbers are \d+, without a sign
TrimRegexMatches(f) == f.kind = "trim" /\ ~f.neg

\* clip\[(\d+): ?(-?\d+)\] : the second number may carry a minus sign
SliceRegexMatches(f) == f.kind = "slice"

\* trim_regex.captures_iter(&avs_contents): the matches, left to right
TrimMatches(text) == SelectSeq(text, TrimRegexMatches)

SliceMatches(text) == SelectSeq(text, SliceRegexMatches)

\* the filter written i % 2 != 0: END, capture 2, is dropped
FilteredCapturesMod2(m) ==
    LET group == <<[neg |-> FALSE, d |-> <<>>],
                   [neg |-> FALSE, d |-> m.s],
                   [neg |-> m.neg, d |-> m.e]>>
        all == [j \in 1..Len(group) |-> [i |-> j - 1, cap |-> group[j]]]
        Kept(c) == c.i % 2 # 0
    IN  SelectSeq(all, Kept)

\* capture_group.iter().enumerate().filter(|&(i, _)| i % 3 != 0):
\* group 0 is the whole match, 1 is START, 2 is END
FilteredCaptures(m) ==
    LET group == <<[neg |-> FALSE, d |-> <<>>],
                   [neg |-> FALSE, d |-> m.s],
                   [neg |-> m.neg, d |-> m.e]>>
        all == [j \in 1..Len(group) |-> [i |-> j - 1, cap |-> group[j]]]
        Kept(c) == c.i % 3 # 0
    IN  SelectSeq(all, Kept)

-----------------------------------------------------------------------------
(* The Trim(...) loop body, one capture *)

\* a loop body that skips a timecode already in the list
TrimCaptureDedup(st, c, fr) ==
    LET p == ParseUsize(c.cap.d)
    IN  IF ~p.some THEN [st EXCEPT !.panic = "parse"]
        ELSE LET tc == ToTimecode(p.v, fr)
                 st1 == [st EXCEPT !.frames = Append(@, p.v),
                                   !.src = Append(@, "trim")]
             IN  IF ~tc.some THEN [st1 EXCEPT !.panic = "timecode"]
                 ELSE IF \E n \in 1..Len(st.ct) : st.ct[n] = tc.v THEN st
                 ELSE [st1 EXCEPT !.ct = Append(@, tc.v)]

\* st = [ct, frames, src, panic]
TrimCapture(st, c, fr) ==
    LET p == ParseUsize(c.cap.d)
    IN  IF ~p.some THEN [st EXCEPT !.panic = "parse"]
        ELSE LET tc == ToTimecode(p.v, fr)
                 st1 == [st EXCEPT !.frames = Append(@, p.v),
                                   !.src = Append(@, "trim")]
             IN  IF ~tc.some THEN [st1 EXCEPT !.panic = "timecode"]
                 ELSE [st1 EXCEPT !.ct = Append(@, tc.v)]

RECURSIVE TrimCaptures(_, _, _)
TrimCaptures(st, caps, fr) ==
    IF caps = <<>> \/ st.panic # "" THEN st
    ELSE TrimCaptures(TrimCapture(st, Head(caps), fr), Tail(caps), fr)

-----------------------------------------------------------------------------
(* get_total_frames *)

ProbeOutcomes ==
    {[kind |-> "spawn_err", millis |-> 0], [kind |-> "exit_nonzero", millis |-> 0],
     [kind |-> "garbage", millis |-> 0],
     [kind |-> "ok", millis |-> 10000], [kind |-> "ok", millis |-> 0 - 1000]}

\* out: what running ffprobe gives; the duration it prints is millis / 1000 s.
\* [panic, started, v]
GetTotalFrames(out, fr) ==
    IF out.kind = "spawn_err" THEN [panic |-> FALSE, started |-> FALSE, v |-> 0]
    ELSE IF out.kind = "exit_nonzero" THEN [panic |-> FALSE, started |-> TRUE, v |-> 0]
    ELSE IF out.kind = "garbage" THEN [panic |-> TRUE, started |-> TRUE, v |-> 0]
    ELSE LET total_frames == (out.millis * fr.num) \div (fr.den * 1000)
         IN  [panic |-> FALSE, started |-> TRUE,
              v |-> IF total_frames < 0 THEN 0 ELSE total_frames]

-----------------------------------------------------------------------------
(* The clip[a:b] loop body, one capture *)

\* no cache: the closure runs for every negative END
RunsClosureAlways(cache) == TRUE

\* Option::get_or_insert_with runs its closure only on None
RunsClosure(cache) == ~cache.some

\* the END of a slice taken as inclusive: no adjustment by -1
SliceEndFrameInclusive(end_index, total_frames) ==
    IF end_index < 0 THEN total_frames + end_index ELSE end_index

\* the frame of capture 2, the END of the slice
SliceEndFrame(end_index, total_frames) ==
    IF end_index < 0 THEN total_frames + end_index ELSE end_index - 1

ClampFrame(frame_isize) == IF frame_isize < 0 THEN 0 ELSE frame_isize

\* lines 112-124, from frame_isize on
SliceEmit(st, frame_isize, fr) ==
    LET frame == ClampFrame(frame_isize)
        tc == ToTimecode(frame, fr)
        st1 == [st EXCEPT !.frames = Append(@, frame), !.src = Append(@, "slice")]
    IN  IF ~tc.some THEN [st1 EXCEPT !.panic = "timecode"]
        ELSE [st1 EXCEPT !.ct = Append(@, tc.v)]

\* st = [ct, frames, src, panic, cache, calls, procs, resolved]
SliceCapture(st, c, fr, out) ==
    LET p == ParseIsize(c.cap.neg, c.cap.d)
    IN  IF ~p.some THEN [st EXCEPT !.panic = "parse"]
        ELSE IF c.i = 2
        THEN IF p.v < 0
             THEN IF RunsClosure(st.cache)
                  THEN LET g == GetTotalFrames(out, fr)
                           st1 == [st EXCEPT
                                     !.calls = @ + 1,
                                     !.procs = IF g.started THEN Append(@, "ffprobe")
                                               ELSE @]
                       IN  IF g.panic THEN [st1 EXCEPT !.panic = "probe"]
                           ELSE SliceEmit([st1 EXCEPT !.cache = Some(g.v),
                                                      !.resolved = Append(@, g.v)],
                                          SliceEndFrame(p.v, g.v), fr)
                  ELSE SliceEmit([st EXCEPT !.resolved = Append(@, st.cache.v)],
                                 SliceEndFrame(p.v, st.cache.v), fr)
             ELSE SliceEmit(st, SliceEndFrame(p.v, 0), fr)
        ELSE SliceEmit(st, p.v, fr)

RECURSIVE SliceCaptures(_, _, _, _)
SliceCaptures(st, caps, fr, out) ==
    IF caps = <<>> \/ st.panic # "" THEN st
    ELSE SliceCaptures(SliceCapture(st, Head(caps), fr, out), Tail(caps), fr, out)

-----------------------------------------------------------------------------
(* split_audio, step by step *)

Init ==
    /\ pc = "start"
    /\ input_avs \in Scripts
    /\ framerate \in Framerates
    /\ avs_contents = <<>>
    /\ cut_times = <<>>
    /\ k = 1
    /\ cached_total_frames = None
    /\ merge_files = <<>>
    /\ use_first = FALSE
    /\ i = 0
    /\ procs = <<>>
    /\ splitArg = ""
    /\ mergeArgs = <<>>
    /\ panicCause = ""
    /\ probeCalls = 0
    /\ frames = <<>>
    /\ src = <<>>
    /\ resolved = <<>>

Panic(cause) ==
    /\ pc' = "panic"
    /\ panicCause' = cause

\* what the environment does to lines 52-63: the DELAY number of the file
\* name fails to parse, the script cannot be opened, it is not UTF-8, or all
\* goes well
ReadOutcomes == {"bad_delay", "open_err", "not_utf8", "ok"}

\* lines 52-63
ReadScript ==
    /\ pc = "start"
    /\ \E r \in ReadOutcomes :
         IF r \in {"bad_delay", "open_err"}
         THEN Panic(r) /\ UNCHANGED avs_contents
         ELSE /\ pc' = "trim"
              /\ avs_contents' = IF r = "ok" THEN input_avs ELSE <<>>
              /\ UNCHANGED panicCause
    /\ UNCHANGED <<input_avs, framerate, cut_times, k, cached_total_frames,
                   merge_files, use_first, i, procs, splitArg, mergeArgs,
                   probeCalls, frames, src, resolved>>

\* lines 70-84, one match
TrimMatch ==
    /\ pc = "trim"
    /\ k <= Len(TrimMatches(avs_contents))
    /\ LET st == TrimCaptures([ct |-> cut_times, frames |-> frames, src |-> src,
                               panic |-> ""],
                              FilteredCaptures(TrimMatches(avs_contents)[k]),
                              framerate)
       IN  /\ cut_times' = st.ct
           /\ frames' = st.frames
           /\ src' = st.src
           /\ IF st.panic # "" THEN Panic(st.panic) /\ UNCHANGED k
              ELSE k' = k + 1 /\ UNCHANGED <<pc, panicCause>>
    /\ UNCHANGED <<input_avs, framerate, avs_contents, cached_total_frames,
                   merge_files, use_first, i, procs, splitArg, mergeArgs,
                   probeCalls, resolved>>

\* the slice loop run whatever the Trim loop found
TriesSliceSyntaxAlways(ct) == TRUE

\* line 86
TriesSliceSyntax(ct) == ct = <<>>

\* lines 84-89: the Trim loop is over
TrimDone ==
    /\ pc = "trim"
    /\ k > Len(TrimMatches(avs_contents))
    /\ pc' = IF TriesSliceSyntax(cut_times) THEN "slice" ELSE "check"
    /\ k' = 1
    /\ cached_total_frames' = None
    /\ UNCHANGED <<input_avs, framerate, avs_contents, cut_times, merge_files,
                   use_first, i, procs, splitArg, mergeArgs, panicCause,
                   probeCalls, frames, src, resolved>>

\* lines 90-126, one match
SliceMatch ==
    /\ pc = "slice"
    /\ k <= Len(SliceMatches(avs_contents))
    /\ \E out \in ProbeOutcomes :
         LET st == SliceCaptures([ct |-> cut_times, frames |-> frames, src |-> src,
                                  panic |-> "", cache |-> cached_total_frames,
                                  calls |-> probeCalls, procs |-> procs,
                                  resolved |-> resolved],
                                 FilteredCaptures(SliceMatches(avs_contents)[k]),
                                 framerate, out)
         IN  /\ cut_times' = st.ct
             /\ frames' = st.frames
             /\ src' = st.src
             /\ cached_total_frames' = st.cache
             /\ probeCalls' = st.calls
             /\ procs' = st.procs
             /\ resolved' = st.resolved
             /\ IF st.panic # "" THEN Panic(st.panic) /\ UNCHANGED k
                ELSE k' = k + 1 /\ UNCHANGED <<pc, panicCause>>
    /\ UNCHANGED <<input_avs, framerate, avs_contents, merge_files, use_first, i,
                   splitArg, mergeArgs>>

\* lines 126-127: the slice loop is over
SliceDone ==
    /\ pc = "slice"
    /\ k > Len(SliceMatches(avs_contents))
    /\ pc' = "check"
    /\ UNCHANGED <<input_avs, framerate, avs_contents, cut_times, k,
                   cached_total_frames, merge_files, use_first, i, procs,
                   splitArg, mergeArgs, panicCause, probeCalls, frames, src,
                   resolved>>

\* the test of line 129 inverted
NoTrimsFoundInverted(ct) == ct # <<>>

\* the test of line 129 left out
NoTrimsFoundNever(ct) == FALSE

\* line 129
NoTrimsFound(ct) == ct = <<>>

\* lines 129-131
CheckTrims ==
    /\ pc = "check"
    /\ IF NoTrimsFound(cut_times) THEN Panic("no_trims")
       ELSE pc' = "split" /\ UNCHANGED panicCause
    /\ UNCHANGED <<input_avs, framerate, avs_contents, cut_times, k,
                   cached_total_frames, merge_files, use_first, i, procs,
                   splitArg, mergeArgs, probeCalls, frames, src, resolved>>

\* cut_times.join(",")
RECURSIVE Join(_)
Join(ts) ==
    IF ts = <<>> THEN ""
    ELSE IF Len(ts) = 1 THEN ts[1]
    ELSE ts[1] \o "," \o Join(Tail(ts))

\* what running mkvmerge gives: Command::output() is Err, its stdout is not
\* UTF-8, or all goes well
RunOutcomes == {"spawn_err", "not_utf8", "ok"}

\* lines 134-154
Split ==
    /\ pc = "split"
    /\ \E r \in RunOutcomes :
         /\ IF r = "spawn_err"
            THEN Panic("split_spawn") /\ UNCHANGED <<procs, splitArg>>
            ELSE /\ procs' = Append(procs, "split")
                 /\ splitArg' = "timecodes:" \o Join(cut_times)
                 /\ IF r = "not_utf8" THEN Panic("split_output")
                    ELSE pc' = "select" /\ UNCHANGED panicCause
    /\ merge_files' = <<>>
    /\ use_first' = FALSE
    /\ i' = 0
    /\ UNCHANGED <<input_avs, framerate, avs_contents, cut_times, k,
                   cached_total_frames, mergeArgs, probeCalls, frames, src,
                   resolved>>

\* line 156
BreaksLoop(idx, len, uf) == idx = len /\ uf

\* the first timestamp looked for at index 1
FirstIsZeroOffByOne(idx, timestamp) == idx = 1 /\ timestamp = ZeroTimecode

\* line 159
FirstIsZero(idx, timestamp) == idx = 0 /\ timestamp = ZeroTimecode

\* the two parities exchanged
KeepsSwapped(uf, idx) == (uf /\ idx % 2 = 1) \/ (~uf /\ idx % 2 = 0)

\* line 162
Keeps(uf, idx) == (uf /\ idx % 2 = 0) \/ (~uf /\ idx % 2 = 1)

\* lines 155-168, one iteration of cut_times.iter().enumerate()
SelectStep ==
    /\ pc = "select"
    /\ i < Len(cut_times)
    /\ IF BreaksLoop(i, Len(cut_times), use_first)
       THEN pc' = "merge" /\ UNCHANGED <<use_first, merge_files, i>>
       ELSE LET uf == IF FirstIsZero(i, cut_times[i + 1]) THEN TRUE ELSE use_first
            IN  /\ use_first' = uf
                /\ merge_files' = IF Keeps(uf, i) THEN Append(merge_files, i + 1)
                                  ELSE merge_files
                /\ i' = i + 1
                /\ UNCHANGED pc
    /\ UNCHANGED <<input_avs, framerate, avs_contents, cut_times, k,
                   cached_total_frames, procs, splitArg, mergeArgs, panicCause,
                   probeCalls, frames, src, resolved>>

\* line 155: the iterator is exhausted
SelectDone ==
    /\ pc = "select"
    /\ i >= Len(cut_times)
    /\ pc' = "merge"
    /\ UNCHANGED <<input_avs, framerate, avs_contents, cut_times, k,
                   cached_total_frames, merge_files, use_first, i, procs,
                   splitArg, mergeArgs, panicCause, probeCalls, frames, src,
                   resolved>>

\* with_extension(format!("split-{:03}.mka", i + 1)), the extension alone
SegmentFile(id) == "split-" \o Pad3(id) \o ".mka"

\* lines 173-185
MergeInputs(files) ==
    [j \in 1..Len(files) |->
        IF j = 1 THEN SegmentFile(files[j]) ELSE "+" \o SegmentFile(files[j])]

\* lines 170-188
Merge ==
    /\ pc = "merge"
    /\ \E r \in RunOutcomes :
         IF r = "spawn_err"
         THEN Panic("merge_spawn") /\ UNCHANGED <<procs, mergeArgs>>
         ELSE /\ procs' = Append(procs, "merge")
              /\ mergeArgs' = MergeInputs(merge_files)
              /\ IF r = "not_utf8" THEN Panic("merge_output")
                 ELSE pc' = "cleanup" /\ UNCHANGED panicCause
    /\ UNCHANGED <<input_avs, framerate, avs_contents, cut_times, k,
                   cached_total_frames, merge_files, use_first, i, splitArg,
                   probeCalls, frames, src, resolved>>

\* lines 190-200: read_dir() fails or the files are removed
Cleanup ==
    /\ pc = "cleanup"
    /\ \E ok \in BOOLEAN :
         IF ok THEN pc' = "done" /\ UNCHANGED panicCause ELSE Panic("cleanup")
    /\ UNCHANGED <<input_avs, framerate, avs_contents, cut_times, k,
                   cached_total_frames, merge_files, use_first, i, procs,
                   splitArg, mergeArgs, probeCalls, frames, src, resolved>>

Next ==
    \/ ReadScript
    \/ TrimMatch
    \/ TrimDone
    \/ SliceMatch
    \/ SliceDone
    \/ CheckTrims
    \/ Split
    \/ SelectStep
    \/ SelectDone
    \/ Merge
    \/ Cleanup

Spec == Init /\ [][Next]_vars

-----------------------------------------------------------------------------
(* The selection loop of lines 153-168 on its own, on any cut list *)

\* the timecodes of frames 0, 60 and 120 at 24 frames per second
SampleTimecodes == {"00:00:00.000", "00:00:02.500", "00:00:05.000"}

CutLists == UNION {[1..n -> SampleTimecodes] : n \in 1..MaxCuts}

InitSel ==
    /\ pc = "select"
    /\ cut_times \in CutLists
    /\ input_avs = <<>>
    /\ framerate = [num |-> 24, den |-> 1]
    /\ avs_contents = <<>>
    /\ k = 1
    /\ cached_total_frames = None
    /\ merge_files = <<>>
    /\ use_first = FALSE
    /\ i = 0
    /\ procs = <<"split">>
    /\ splitArg = "timecodes:" \o Join(cut_times)
    /\ mergeArgs = <<>>
    /\ panicCause = ""
    /\ probeCalls = 0
    /\ frames = <<>>
    /\ src = <<>>
    /\ resolved = <<>>

NextSel ==
    \/ SelectStep
    \/ SelectDone

SelSpec == InitSel /\ [][NextSel]_vars

-----------------------------------------------------------------------------
(* Vocabulary of the properties *)

Selected == {merge_files[j] : j \in 1..Len(merge_files)}

\* the segments 1..n whose 0-based index is even / odd
EvenIndexed(n) == {id \in 1..n : (id - 1) % 2 = 0}

OddIndexed(n) == {id \in 1..n : (id - 1) % 2 = 1}

Ascending(seq) == \A a, b \in 1..Len(seq) : a < b => seq[a] < seq[b]

\* the selection loop has run to its end
PlanBuilt == pc \in {"merge", "cleanup", "done"}

\* both extraction loops are over and none of their unwraps panicked
Extracted == pc \in {"check", "split", "select", "merge", "cleanup", "done"}

\* line 129 was passed
ExtractionSucceeded == pc \in {"split", "select", "merge", "cleanup", "done"}

\* lines 52-63 were passed: avs_contents is the script text
ScriptRead == pc # "start" /\ panicCause \notin {"bad_delay", "open_err"}

Max0(x) == IF x < 0 THEN 0 ELSE x

-----------------------------------------------------------------------------
(* Segment selection *)

\* C1, as stated: when the first of the N cut timecodes is "00:00:00.000", the
\* merge plan holds exactly the segments among 1..N+1 whose 0-based index is
\* even.
C1_EvenOfAllSegments ==
    (PlanBuilt /\ cut_times[1] = ZeroTimecode)
        => Selected = EvenIndexed(Len(cut_times) + 1)

\* C1, amended: when the first of the N cut timecodes is "00:00:00.000", the
\* merge plan holds, in ascending order, exactly the segments among 1..N whose
\* 0-based index is even; segment N+1 is never part of it.
C1_EvenOfFirstN ==
    /\ (pc = "select" /\ i > 0 /\ cut_times[1] = ZeroTimecode)
           => use_first /\ Selected = EvenIndexed(i)
    /\ (PlanBuilt /\ cut_times[1] = ZeroTimecode)
           => /\ Selected = EvenIndexed(Len(cut_times))
              /\ Ascending(merge_files)
              /\ Cardinality(Selected) = Len(merge_files)
              /\ (Len(cut_times) + 1) \notin Selected

\* two cuts, the first at zero: segment 1 alone is kept, segment 3 is not
C1_Witness ==
    /\ PlanBuilt
    /\ cut_times = <<ZeroTimecode, "00:00:05.000">>
    /\ merge_files = <<1>>

-----------------------------------------------------------------------------
(* Extraction *)

\* the number a numeral of the script denotes; -1 for one no usize holds
Val(d) == IF Exceeds(d, UsizeMaxDigits) THEN 0 - 1 ELSE DigitsValue(d, 0)

SignedVal(neg, d) == IF neg THEN 0 - Val(d) ELSE Val(d)

\* START(m1), END(m1), ..., START(mk), END(mk) of the matches ms
Endpoints(ms) ==
    [n \in 1..(2 * Len(ms)) |->
        IF n % 2 = 1 THEN Val(ms[(n + 1) \div 2].s) ELSE Val(ms[n \div 2].e)]

IsPrefix(a, b) == Len(a) <= Len(b) /\ \A n \in 1..Len(a) : a[n] = b[n]

\* the timecodes of the frames fs, in their order
Timecodes(fs) == [n \in 1..Len(fs) |-> ToTimecode(fs[n], framerate).v]

\* 1, 3, ..., 2n - 1
OddNumbers(n) == [j \in 1..n |-> 2 * j - 1]

TrimCount == Len(TrimMatches(avs_contents))

\* the script has trim(...) calls and the first one starts at frame 0
StartsAtZero == TrimCount >= 1 /\ Val(TrimMatches(avs_contents)[1].s) = 0

\* C3: a script with k >= 1 trim(...) calls whose first START is 0 yields 2k
\* frames and 2k timecodes, and the merge plan keeps exactly segments 1, 3, ...,
\* 2k-1 of the 2k+1 segments: segment 2k+1 is never selected.
\* Trim(clip,0,99)Trim(clip,200,299) gives frames 0, 99, 200, 299 and keeps
\* segments 1 and 3.
C3_TrimsFromZero ==
    (ScriptRead /\ StartsAtZero) =>
        /\ (2 * TrimCount + 1) \notin Selected
        /\ Extracted => Len(frames) = 2 * TrimCount /\ Len(cut_times) = 2 * TrimCount
        /\ PlanBuilt => merge_files = OddNumbers(TrimCount)
        /\ (Extracted /\ Endpoints(TrimMatches(avs_contents)) = <<0, 99, 200, 299>>)
               => frames = <<0, 99, 200, 299>>
        /\ (PlanBuilt /\ Endpoints(TrimMatches(avs_contents)) = <<0, 99, 200, 299>>)
               => merge_files = <<1, 3>>

\* Trim(clip,0,99)Trim(clip,200,299) at 24 frames per second, selection done
C3_Witness ==
    /\ PlanBuilt
    /\ framerate = [num |-> 24, den |-> 1]
    /\ frames = <<0, 99, 200, 299>>
    /\ cut_times = <<"00:00:00.000", "00:00:04.125", "00:00:08.333", "00:00:12.458">>
    /\ merge_files = <<1, 3>>
    /\ src = <<"trim", "trim", "trim", "trim">>

\* C9: the frames extracted from trim(...) matches m1..mk are exactly
\* START(m1), END(m1), ..., START(mk), END(mk), in text order, nothing dropped
\* and nothing sorted, and the timecodes given to the splitter are in that order.
C9_OrderPreserved ==
    (ScriptRead /\ TrimCount >= 1) =>
        /\ IsPrefix(frames, Endpoints(TrimMatches(avs_contents)))
        /\ IsPrefix(cut_times, Timecodes(frames))
        /\ Extracted => /\ frames = Endpoints(TrimMatches(avs_contents))
                        /\ cut_times = Timecodes(frames)
        /\ "split" \in {procs[n] : n \in 1..Len(procs)}
               => splitArg = "timecodes:" \o Join(Timecodes(Endpoints(TrimMatches(avs_contents))))

\* trim(200,99) then trim(0,99): decreasing, overlapping and repeating
C9_Witness ==
    /\ pc = "select"
    /\ frames = <<200, 99, 0, 99>>
    /\ splitArg = "timecodes:00:00:08.333,00:00:04.125,00:00:00.000,00:00:04.125"

\* C6: the slice syntax is examined only when the trim syntax gave no cut
\* point; when the script has a trim(...) match every cut point comes from the
\* trim(...) matches, no slice contributes and get_total_frames is not called.
C6_ModeExclusive ==
    /\ pc = "slice" => \A n \in 1..Len(src) : src[n] = "slice"
    /\ \A a, b \in 1..Len(src) : src[a] = src[b]
    /\ (ScriptRead /\ TrimCount >= 1) =>
           /\ pc # "slice"
           /\ \A n \in 1..Len(src) : src[n] = "trim"
           /\ probeCalls = 0
           /\ cached_total_frames = None
           /\ resolved = <<>>
           /\ \A n \in 1..Len(procs) : procs[n] # "ffprobe"

\* a script with a trim(...) call and a slice with a negative END, split
C6_Witness ==
    /\ pc = "select"
    /\ TrimCount = 1
    /\ \E n \in 1..Len(avs_contents) :
          avs_contents[n].kind = "slice" /\ avs_contents[n].neg
    /\ Len(cut_times) = 2

-----------------------------------------------------------------------------
(* Slices *)

\* the slice match the n-th frame came from
SliceOf(n) == SliceMatches(avs_contents)[(n + 1) \div 2]

\* C7: a slice clip[S:E] contributes S unchanged and then E-1 when E >= 0, and
\* total_frames + E when E < 0, a negative result being replaced by 0.
C7_SliceEnd ==
    \A n \in 1..Len(frames) :
        src[n] = "slice" =>
            LET m == SliceOf(n)
                E == SignedVal(m.neg, m.e)
            IN  IF n % 2 = 1 THEN frames[n] = Val(m.s)
                ELSE /\ E >= 0 => frames[n] = Max0(E - 1)
                     /\ E = 0 => frames[n] = 0
                     /\ E < 0 => /\ cached_total_frames.some
                                 /\ frames[n] = Max0(cached_total_frames.v + E)

\* clip[0:-99] then clip[200:0] on audio of 240 frames
C7_Witness ==
    /\ Extracted
    /\ cached_total_frames = Some(240)
    /\ Len(avs_contents) = 2
    /\ avs_contents[1].neg /\ avs_contents[1].e = <<9,9>>
    /\ ~avs_contents[2].neg /\ avs_contents[2].e = <<0>>
    /\ frames = <<0, 141, 200, 0>>
    /\ src = <<"slice", "slice", "slice", "slice">>

NegativeEnd(m) == m.neg /\ StripZeros(m.e) # <<0>>

\* C8: in one extraction get_total_frames is called at most once however many
\* slices have a negative END, not at all when none has one, and every
\* negative END is added to the same cached total.
C8_ProbedOnce ==
    /\ probeCalls <= 1
    /\ "ffprobe" \notin {procs[n] : n \in 2..Len(procs)}
    /\ (\A n \in 1..Len(avs_contents) :
           SliceRegexMatches(avs_contents[n]) => ~NegativeEnd(avs_contents[n]))
           => probeCalls = 0
    /\ resolved # <<>> =>
           /\ probeCalls = 1
           /\ cached_total_frames.some
           /\ \A n \in 1..Len(resolved) : resolved[n] = cached_total_frames.v

\* two slices with a negative END, one call
C8_Witness ==
    /\ Extracted
    /\ Len(resolved) = 2
    /\ probeCalls = 1
    /\ procs = <<"ffprobe">>

-----------------------------------------------------------------------------
(* Fatal errors and external processes *)

Started == {procs[n] : n \in 1..Len(procs)}

\* the panics of reading the script, of extraction and of conversion
CoreCauses == {"bad_delay", "open_err", "parse", "timecode", "probe", "no_trims"}

\* the panics of running mkvmerge and of removing the segment files
GlueCauses == {"split_output", "merge_spawn", "merge_output", "cleanup"}

\* C4, as stated: a run either produces a complete merge plan or aborts before
\* the splitter or the merger has been started: no fatal error occurs once the
\* splitter has been started.
C4_AllOrNothing ==
    pc = "panic" => "split" \notin Started /\ "merge" \notin Started

\* C4, amended: every fatal error of reading the script, of extraction and of
\* conversion occurs before the splitter is started, and the splitter is only
\* started with a non-empty cut list of even length; the merge plan is built
\* after the splitter has run, is complete when the merger is started, and the
\* fatal errors that occur once the splitter has been started are those of
\* running mkvmerge (its output is not UTF-8, the merger cannot be launched)
\* and of the cleanup.
C4_FatalBeforeSplit ==
    /\ (pc = "panic" /\ panicCause \in CoreCauses)
           => "split" \notin Started /\ "merge" \notin Started
    /\ (pc = "panic" /\ "split" \in Started) => panicCause \in GlueCauses
    /\ pc = "panic" => panicCause \in CoreCauses \cup GlueCauses \cup {"split_spawn"}
    /\ (pc = "panic" /\ panicCause = "split_spawn") => Started \subseteq {"ffprobe"}
    /\ "split" \in Started
           => /\ cut_times # <<>>
              /\ Len(cut_times) % 2 = 0
              /\ splitArg = "timecodes:" \o Join(cut_times)
    /\ "merge" \in Started
           => /\ "split" \in Started
              /\ i = Len(cut_times)
              /\ merge_files # <<>>
              /\ mergeArgs = MergeInputs(merge_files)

\* the splitter has run, its output is not UTF-8 and no merge plan was built
C4_Witness ==
    /\ pc = "panic"
    /\ panicCause = "split_output"
    /\ procs = <<"split">>
    /\ Len(cut_times) = 4
    /\ merge_files = <<>>

NoMatch(text) == TrimMatches(text) = <<>> /\ SliceMatches(text) = <<>>

\* C5: when the script text has no match of the trim syntax and none of the
\* slice syntax, the run aborts and no external process is ever started:
\* neither the probe, nor the splitter, nor the merger.
C5_NoTrimsNoProcess ==
    (ScriptRead /\ NoMatch(avs_contents)) =>
        /\ procs = <<>>
        /\ probeCalls = 0
        /\ cut_times = <<>>
        /\ pc \in {"trim", "slice", "check", "panic"}
        /\ pc = "panic" => panicCause = "no_trims"

\* a script of text and a signed trim call alone: the run has aborted
C5_Witness ==
    /\ pc = "panic"
    /\ panicCause = "no_trims"
    /\ avs_contents = <<TextFragment, SignedTrim>>
    /\ procs = <<>>

\* C10: when extraction succeeds the number of cut timecodes is even and at
\* least 2, so the merge plan given to the merger is not empty, its identifiers
\* are strictly ascending, and it starts with segment 1 when the first cut is
\* zero and with segment 2 otherwise.
C10_PlanNotEmpty ==
    /\ ExtractionSucceeded => Len(cut_times) >= 2 /\ Len(cut_times) % 2 = 0
    /\ PlanBuilt =>
           /\ merge_files # <<>>
           /\ Ascending(merge_files)
           /\ merge_files[1] = IF cut_times[1] = ZeroTimecode THEN 1 ELSE 2
           /\ 1 \in Selected <=> cut_times[1] = ZeroTimecode
           /\ 2 \in Selected <=> cut_times[1] # ZeroTimecode
    /\ "merge" \in Started => mergeArgs # <<>> /\ mergeArgs[1] = SegmentFile(merge_files[1])

\* clip[200:99] and clip[200:-99]: first cut not zero, segments 2 and 4 merged
C10_Witness ==
    /\ pc = "done"
    /\ cut_times[1] # ZeroTimecode
    /\ merge_files = <<2, 4>>
    /\ mergeArgs = <<"split-002.mka", "+split-004.mka">>
    /\ src = <<"slice", "slice", "slice", "slice">>

====
